---- MODULE Spec2Model ----
(***************************************************************************)
(* A model of two of the repository's command-line tools:                  *)
(*   csvgrep/csvgrep.py   - grep over the rows of a CSV file, with column  *)
(*                          projection and a header policy;                *)
(*   trim-csv/trim_csv.py - removal of the columns that are empty in every *)
(*                          data row.                                      *)
(* Text is a sequence of one-character strings, a row is a sequence of     *)
(* texts and a table is a sequence of rows (what csv.reader returns).      *)
(***************************************************************************)
EXTENDS Integers, Sequences, FiniteSets, TLC

\* ------------------------------------------------------------------ bounds
MaxRows == 3
MaxSpecLen == 5
MaxCols == 3
MaxRuns == 3

\* ------------------------------------------------------------- text helpers
Digits == <<"0", "1", "2", "3", "4", "5", "6", "7", "8", "9">>

IsDigit(c) == \E d \in 1..10 : Digits[d] = c

DigitVal(c) == (CHOOSE d \in 1..10 : Digits[d] = c) - 1

\* str.lower() on the letters the inputs are drawn from
Lower(c) == IF c = "A" THEN "a" ELSE IF c = "B" THEN "b" ELSE c

LowerText(t) == [k \in 1..Len(t) |-> Lower(t[k])]

\* delimiter.join(row)
RECURSIVE Join(_, _)
Join(row, d) ==
  IF row = <<>> THEN <<>>
  ELSE IF Len(row) = 1 THEN row[1]
  ELSE row[1] \o <<d>> \o Join(Tail(row), d)

\* f"{line_num}": the decimal digits of a positive integer
RECURSIVE Decimal(_)
Decimal(n) ==
  IF n < 10 THEN <<Digits[n + 1]>>
  ELSE Decimal(n \div 10) \o <<Digits[(n % 10) + 1]>>

\* s in t (substring test)
Contains(t, s) ==
  \E k \in 0..(Len(t) - Len(s)) : \A j \in 1..Len(s) : t[k + j] = s[j]

\* str.split(sep): the pieces between the occurrences of sep
RECURSIVE SplitAcc(_, _, _)
SplitAcc(s, sep, cur) ==
  IF s = <<>> THEN <<cur>>
  ELSE IF Head(s) = sep THEN <<cur>> \o SplitAcc(Tail(s), sep, <<>>)
  ELSE SplitAcc(Tail(s), sep, Append(cur, Head(s)))

Split(s, sep) == SplitAcc(s, sep, <<>>)

\* str.strip(): leading and trailing blanks removed
RECURSIVE Strip(_)
Strip(s) ==
  IF s = <<>> THEN s
  ELSE IF Head(s) = " " THEN Strip(Tail(s))
  ELSE IF s[Len(s)] = " " THEN Strip(SubSeq(s, 1, Len(s) - 1))
  ELSE s

\* part.split('-', 1): the text before the first '-' and the text after it
FirstDash(s) == CHOOSE k \in 1..Len(s) : s[k] = "-" /\ \A j \in 1..(k - 1) : s[j] # "-"

BeforeDash(s) == SubSeq(s, 1, FirstDash(s) - 1)

AfterDash(s) == SubSeq(s, FirstDash(s) + 1, Len(s))

\* int(s): an optional sign and at least one digit, blanks around it ignored;
\* anything else raises ValueError
AllDigits(s) == s # <<>> /\ \A k \in 1..Len(s) : IsDigit(s[k])

IsInt(s) ==
  LET t == Strip(s) IN
  t # <<>> /\ (IF t[1] \in {"-", "+"} THEN AllDigits(Tail(t)) ELSE AllDigits(t))

RECURSIVE NatVal(_)
NatVal(s) == IF s = <<>> THEN 0 ELSE 10 * NatVal(SubSeq(s, 1, Len(s) - 1)) + DigitVal(s[Len(s)])

IntVal(s) ==
  LET t == Strip(s) IN
  IF t[1] = "-" THEN 0 - NatVal(Tail(t))
  ELSE IF t[1] = "+" THEN NatVal(Tail(t))
  ELSE NatVal(t)

Max(S) == CHOOSE x \in S : \A y \in S : y <= x

\* ------------------------------------------------ csvgrep: pure functions
\* a variant of ParsePart that drops a range altogether when it warns about it
ParsePartDropsRange(acc, raw, max_cols) ==
  LET part == Strip(raw) IN
  IF \E k \in 1..Len(part) : part[k] = "-"
  THEN IF ~IsInt(BeforeDash(part)) \/ ~IsInt(AfterDash(part))
       THEN [acc EXCEPT !.error = TRUE]
       ELSE LET start_idx == IntVal(BeforeDash(part)) - 1
                end_idx == IntVal(AfterDash(part)) - 1
            IN IF start_idx < 0 \/ end_idx >= max_cols
               THEN [acc EXCEPT !.warnings = @ + 1]
               ELSE [acc EXCEPT !.columns = @ \cup (start_idx..end_idx)]
  ELSE IF ~IsInt(part)
       THEN [acc EXCEPT !.error = TRUE]
       ELSE LET col_idx == IntVal(part) - 1 IN
            IF col_idx < 0 \/ col_idx >= max_cols
            THEN [acc EXCEPT !.warnings = @ + 1]
            ELSE [acc EXCEPT !.columns = @ \cup {col_idx}]

\* One pass of the loop body of parse_column_spec on one token; acc is
\* [columns, warnings, error], error meaning int() raised ValueError.
ParsePart(acc, raw, max_cols) ==
  LET part == Strip(raw) IN
  IF \E k \in 1..Len(part) : part[k] = "-"
  THEN IF ~IsInt(BeforeDash(part)) \/ ~IsInt(AfterDash(part))
       THEN [acc EXCEPT !.error = TRUE]
       ELSE LET start_idx == IntVal(BeforeDash(part)) - 1
                end_idx == IntVal(AfterDash(part)) - 1
            IN [columns |-> acc.columns \cup
                            {i \in start_idx..end_idx : 0 <= i /\ i < max_cols},
                warnings |-> acc.warnings +
                             (IF start_idx < 0 \/ end_idx >= max_cols THEN 1 ELSE 0),
                error |-> FALSE]
  ELSE IF ~IsInt(part)
       THEN [acc EXCEPT !.error = TRUE]
       ELSE LET col_idx == IntVal(part) - 1 IN
            IF col_idx < 0 \/ col_idx >= max_cols
            THEN [acc EXCEPT !.warnings = @ + 1]
            ELSE [acc EXCEPT !.columns = @ \cup {col_idx}]

RECURSIVE ParseParts(_, _, _)
ParseParts(acc, parts, max_cols) ==
  IF parts = <<>> \/ acc.error THEN acc
  ELSE ParseParts(ParsePart(acc, Head(parts), max_cols), Tail(parts), max_cols)

\* parse_column_spec(spec, max_cols): the set of positions, the number of
\* warnings printed, and whether ValueError was raised
parse_column_spec(spec, max_cols) ==
  ParseParts([columns |-> {}, warnings |-> 0, error |-> FALSE], Split(spec, ","), max_cols)

\* sorted(columns)
RECURSIVE Sorted(_)
Sorted(S) ==
  IF S = {} THEN <<>>
  ELSE LET m == CHOOSE x \in S : \A y \in S : x <= y IN <<m>> \o Sorted(S \ {m})

\* a variant of filter_columns that pads the positions a row lacks with ""
filter_columns_padded(row, columns) ==
  IF columns = {} THEN row
  ELSE LET order == Sorted(columns) IN
       [k \in 1..Len(order) |-> IF order[k] < Len(row) THEN row[order[k] + 1] ELSE <<>>]

\* filter_columns(row, columns); a col_filter of None and an empty set are
\* both falsy and both modelled by {}
filter_columns(row, columns) ==
  IF columns = {} THEN row
  ELSE LET order == Sorted(columns)
           kept == SelectSeq(order, LAMBDA i : i < Len(row))
       IN [k \in 1..Len(kept) |-> row[kept[k] + 1]]

\* re.compile(pattern): of the patterns drawn, one holding "(" is an
\* unterminated group (no ")" is ever drawn) and raises re.error
RegexValid(p) == \A k \in 1..Len(p) : p[k] # "("

\* regex.search(text) for a pattern of literals and ".", under re.IGNORECASE
\* when icase
RegexSearch(p, icase, text) ==
  \E k \in 0..(Len(text) - Len(p)) :
    \A j \in 1..Len(p) :
      \/ p[j] = "."
      \/ IF icase THEN Lower(p[j]) = Lower(text[k + j]) ELSE p[j] = text[k + j]

\* ------------------------------------------------------- csvgrep: state
VARIABLES
  file_exists,        \* whether file_path names a file that can be opened
  file,               \* the rows csv.reader yields for that file
  pattern, columns, ignore_case, fixed_strings, invert_match,
  show_line_numbers, with_header, no_header, delimiter,   \* arguments
  pc,                 \* position in csvgrep()
  regex, search_string, rows, max_cols, col_filter, line_num,   \* locals
  out,                \* standard output: the lines printed, each with the
                      \* input line it was printed for
  err,                \* diagnostic stream: the messages printed
  exit_code,          \* the process's exit status once pc = "exit"
  runs,               \* the number of invocations started on these inputs
  earlier             \* the standard outputs of the invocations before this one

VARIABLES
  cs_spec, cs_max_cols, cs_parsed, cs_row, cs_projected, cs_pc

VARIABLES
  tr_file, tr_rows, tr_empty, tr_keep, tr_written, tr_pc

args == <<pattern, columns, ignore_case, fixed_strings, invert_match,
          show_line_numbers, with_header, no_header, delimiter>>

env == <<file_exists, file>>

locals == <<regex, search_string, rows, max_cols, col_filter, line_num>>

grep_vars == <<env, args, pc, locals, out, err, exit_code, runs, earlier>>

cs_vars == <<cs_spec, cs_max_cols, cs_parsed, cs_row, cs_projected, cs_pc>>

tr_vars == <<tr_file, tr_rows, tr_empty, tr_keep, tr_written, tr_pc>>

vars == <<grep_vars, cs_vars, tr_vars>>

\* --------------------------------------------------------- input domains
\* the lines a file is made of: a blank line (csv.reader yields []), a
\* one-field line and a three-field line
Lines == { <<>>, << <<"A">> >>, << <<"a">>, <<"A">>, <<"b">> >> }

SeqsUpTo(S, n) == UNION { [1..k -> S] : k \in 0..n }

Tables == SeqsUpTo(Lines, MaxRows)

\* the empty pattern, a literal, a pattern whose "." spans the delimiter,
\* and a pattern that is no regular expression
Patterns == { <<>>, <<"a">>, <<"a", ".", "A">>, <<"(">> }

\* -c absent, and column specs in and out of bounds, reversed, malformed
ColumnArgs == { <<>>, <<"3", ",", "1">>, <<"0">>, <<"x">>, <<"-", "1">>,
                <<"3", "-", "1">> }

Delimiters == { "," }

\* ------------------------------------------------------- csvgrep: steps
GrepIdle ==
  /\ file_exists = FALSE /\ file = <<>>
  /\ pattern = <<>> /\ columns = <<>>
  /\ ignore_case = FALSE /\ fixed_strings = FALSE /\ invert_match = FALSE
  /\ show_line_numbers = FALSE /\ with_header = FALSE /\ no_header = FALSE
  /\ delimiter = ","
  /\ pc = "idle"
  /\ regex = <<>> /\ search_string = <<>> /\ rows = <<>> /\ max_cols = 0
  /\ col_filter = {} /\ line_num = 0
  /\ out = <<>> /\ err = <<>> /\ exit_code = 0
  /\ runs = 0 /\ earlier = <<>>

\* the state at the call of csvgrep(), its arguments drawn from the sets given
GrepStart(tables, patterns, specs, bools) ==
  /\ file_exists \in BOOLEAN
  /\ file \in (IF file_exists THEN tables ELSE {<<>>})
  /\ pattern \in patterns
  /\ columns \in specs
  /\ ignore_case \in BOOLEAN
  /\ fixed_strings \in BOOLEAN
  /\ invert_match \in BOOLEAN
  /\ show_line_numbers \in bools
  /\ with_header \in BOOLEAN
  /\ no_header \in BOOLEAN
  /\ delimiter \in Delimiters
  /\ pc = "compile"
  /\ regex = <<>> /\ search_string = <<>> /\ rows = <<>> /\ max_cols = 0
  /\ col_filter = {} /\ line_num = 0
  /\ out = <<>> /\ err = <<>> /\ exit_code = 0
  /\ runs = 1 /\ earlier = <<>>

Exit(code, message) ==
  /\ pc' = "exit"
  /\ exit_code' = code
  /\ err' = IF message = "" THEN err ELSE Append(err, message)

\* lines 122-133: the matcher is prepared
Compile ==
  /\ pc = "compile"
  /\ pattern = <<>> \/ fixed_strings \/ RegexValid(pattern)
  /\ search_string' = IF pattern # <<>> /\ fixed_strings
                      THEN (IF ignore_case THEN LowerText(pattern) ELSE pattern)
                      ELSE <<>>
  /\ regex' = IF pattern # <<>> /\ ~fixed_strings THEN <<pattern, ignore_case>> ELSE <<>>
  /\ pc' = "open"
  /\ UNCHANGED <<env, args, rows, max_cols, col_filter, line_num, out, err, exit_code,
                 runs, earlier, cs_vars, tr_vars>>

\* lines 134-136: re.error
CompileError ==
  /\ pc = "compile"
  /\ pattern # <<>> /\ ~fixed_strings /\ ~RegexValid(pattern)
  /\ Exit(1, "Error: Invalid regex pattern")
  /\ UNCHANGED <<env, args, locals, out, runs, earlier, cs_vars, tr_vars>>

\* lines 139, 206-208: FileNotFoundError
OpenMissing ==
  /\ pc = "open"
  /\ ~file_exists
  /\ Exit(1, "Error: File not found")
  /\ UNCHANGED <<env, args, locals, out, runs, earlier, cs_vars, tr_vars>>

\* lines 143-145: a file with no rows returns at once
ReadEmpty ==
  /\ pc = "open"
  /\ file_exists /\ file = <<>>
  /\ rows' = file
  /\ Exit(0, "")
  /\ UNCHANGED <<env, args, regex, search_string, max_cols, col_filter, line_num, out,
                 runs, earlier, cs_vars, tr_vars>>

\* lines 143-148
ReadRows ==
  /\ pc = "open"
  /\ file_exists /\ file # <<>>
  /\ rows' = file
  /\ max_cols' = Max({ Len(file[k]) : k \in 1..Len(file) })
  /\ pc' = "columns"
  /\ UNCHANGED <<env, args, regex, search_string, col_filter, line_num, out, err,
                 exit_code, runs, earlier, cs_vars, tr_vars>>

\* a variant of ParseColumns that swallows the ValueError and scans with the
\* positions gathered before it
ParseColumnsUnchecked ==
  /\ pc = "columns"
  /\ LET r == parse_column_spec(columns, max_cols) IN
     /\ col_filter' = IF columns = <<>> THEN {} ELSE r.columns
     /\ err' = IF columns = <<>> THEN err
               ELSE err \o [k \in 1..r.warnings |-> "Warning: out of bounds"]
  /\ line_num' = 1
  /\ pc' = "scan"
  /\ UNCHANGED <<env, args, regex, search_string, rows, max_cols, out, exit_code,
                 runs, earlier, cs_vars, tr_vars>>

\* lines 151-154: the column spec is parsed, its warnings printed
ParseColumns ==
  /\ pc = "columns"
  /\ LET r == parse_column_spec(columns, max_cols) IN
     /\ columns # <<>> => ~r.error
     /\ col_filter' = IF columns = <<>> THEN {} ELSE r.columns
     /\ err' = IF columns = <<>> THEN err
               ELSE err \o [k \in 1..r.warnings |-> "Warning: out of bounds"]
  /\ line_num' = 1
  /\ pc' = "scan"
  /\ UNCHANGED <<env, args, regex, search_string, rows, max_cols, out, exit_code,
                 runs, earlier, cs_vars, tr_vars>>

\* lines 155-157: ValueError from int(); the warnings of the tokens before
\* the malformed one have been printed
ParseColumnsError ==
  /\ pc = "columns"
  /\ columns # <<>>
  /\ LET r == parse_column_spec(columns, max_cols) IN
     /\ r.error
     /\ err' = (err \o [k \in 1..r.warnings |-> "Warning: out of bounds"])
                 \o <<"Error: Invalid column specification">>
  /\ pc' = "exit"
  /\ exit_code' = 1
  /\ UNCHANGED <<env, args, locals, out, runs, earlier, cs_vars, tr_vars>>

\* a variant of RowMatches that tests each field by itself instead of the
\* delimiter-joined line
RowMatchesPerField(row) ==
  IF fixed_strings /\ search_string # <<>>
  THEN \E f \in 1..Len(row) :
         Contains(IF ignore_case THEN LowerText(row[f]) ELSE row[f], search_string)
  ELSE IF regex # <<>>
       THEN \E f \in 1..Len(row) : RegexSearch(regex[1], regex[2], row[f])
       ELSE TRUE

\* lines 174-181 and 191-198: the match test of one row
RowMatches(row) ==
  LET row_text == Join(row, delimiter) IN
  IF fixed_strings /\ search_string # <<>>
  THEN Contains(IF ignore_case THEN LowerText(row_text) ELSE row_text, search_string)
  ELSE IF regex # <<>> THEN RegexSearch(regex[1], regex[2], row_text) ELSE TRUE

\* a variant of ShouldEmit in which -v prints every row
ShouldEmitOrInvert(matches) == matches \/ invert_match

\* lines 183 and 200
ShouldEmit(matches) == (matches /\ ~invert_match) \/ (~matches /\ invert_match)

\* a variant of HeaderBypass in which --no-header wins over --with-header
HeaderBypassNoHeaderWins == ~no_header /\ (with_header \/ pattern = <<>>)

\* line 165
HeaderBypass == with_header \/ (~no_header /\ pattern = <<>>)

\* a variant of Printed that numbers the lines by their place in the output
PrintedOutputPosition(row) ==
  [src |-> line_num,
   text |-> (IF show_line_numbers THEN Decimal(Len(out) + 1) \o <<":">> ELSE <<>>)
            \o Join(filter_columns(row, col_filter), delimiter)]

\* lines 166-169, 184-187 and 201-204: what print() writes for a row
Printed(row) ==
  [src |-> line_num,
   text |-> (IF show_line_numbers THEN Decimal(line_num) \o <<":">> ELSE <<>>)
            \o Join(filter_columns(row, col_filter), delimiter)]

\* lines 164-188: the first row
HeaderRow ==
  /\ pc = "scan"
  /\ line_num = 1 /\ line_num <= Len(rows)
  /\ out' = IF HeaderBypass THEN Append(out, Printed(rows[line_num]))
            ELSE IF no_header THEN out
            ELSE IF ShouldEmit(RowMatches(rows[line_num]))
                 THEN Append(out, Printed(rows[line_num]))
                 ELSE out
  /\ line_num' = line_num + 1
  /\ UNCHANGED <<env, args, pc, regex, search_string, rows, max_cols, col_filter, err,
                 exit_code, runs, earlier, cs_vars, tr_vars>>

\* lines 190-204: every later row
DataRow ==
  /\ pc = "scan"
  /\ line_num > 1 /\ line_num <= Len(rows)
  /\ out' = IF ShouldEmit(RowMatches(rows[line_num]))
            THEN Append(out, Printed(rows[line_num]))
            ELSE out
  /\ line_num' = line_num + 1
  /\ UNCHANGED <<env, args, pc, regex, search_string, rows, max_cols, col_filter, err,
                 exit_code, runs, earlier, cs_vars, tr_vars>>

\* line 160: the loop ends, csvgrep() returns and the process exits with 0
ScanDone ==
  /\ pc = "scan"
  /\ line_num > Len(rows)
  /\ Exit(0, "")
  /\ UNCHANGED <<env, args, locals, out, runs, earlier, cs_vars, tr_vars>>

GrepNext ==
  \/ Compile
  \/ CompileError
  \/ OpenMissing
  \/ ReadEmpty
  \/ ReadRows
  \/ ParseColumns
  \/ ParseColumnsError
  \/ HeaderRow
  \/ DataRow
  \/ ScanDone

\* lines 255-268: the tool is invoked again on the same file with the same
\* arguments, but for -v, which is flipped
InvertRerun ==
  /\ pc = "exit"
  /\ runs < MaxRuns
  /\ runs' = runs + 1
  /\ earlier' = Append(earlier, out)
  /\ invert_match' = ~invert_match
  /\ pc' = "compile"
  /\ regex' = <<>> /\ search_string' = <<>> /\ rows' = <<>> /\ max_cols' = 0
  /\ col_filter' = {} /\ line_num' = 0
  /\ out' = <<>> /\ err' = <<>> /\ exit_code' = 0
  /\ UNCHANGED <<env, pattern, columns, ignore_case, fixed_strings, show_line_numbers,
                 with_header, no_header, delimiter, cs_vars, tr_vars>>

\* ------------------------------- parse_column_spec and filter_columns alone
\* the characters a column spec is drawn from
SpecChars == { "0", "1", "3", "-", "," }

\* a row of k fields, the field of column j holding "c<j>"
CsRowOf(k) == [j \in 1..k |-> <<"c">> \o Decimal(j)]

CsStart ==
  /\ cs_spec \in SeqsUpTo(SpecChars, MaxSpecLen) \ { <<>> }
  /\ cs_max_cols \in 0..MaxCols
  /\ cs_parsed = [columns |-> {}, warnings |-> 0, error |-> FALSE]
  /\ cs_row = <<>> /\ cs_projected = <<>> /\ cs_pc = "parse"

\* lines 44-79: the call returns its set
CsParse ==
  /\ cs_pc = "parse"
  /\ cs_parsed' = parse_column_spec(cs_spec, cs_max_cols)
  /\ ~cs_parsed'.error
  /\ cs_pc' = "filter"
  /\ UNCHANGED <<cs_spec, cs_max_cols, cs_row, cs_projected, grep_vars, tr_vars>>

\* lines 60, 61, 72: the call raises ValueError
CsParseRaises ==
  /\ cs_pc = "parse"
  /\ cs_parsed' = parse_column_spec(cs_spec, cs_max_cols)
  /\ cs_parsed'.error
  /\ cs_pc' = "raised"
  /\ UNCHANGED <<cs_spec, cs_max_cols, cs_row, cs_projected, grep_vars, tr_vars>>

\* lines 82-87: a row, as long as the table is wide or ragged, is projected
CsFilter ==
  /\ cs_pc = "filter"
  /\ \E k \in 0..MaxCols :
       /\ cs_row' = CsRowOf(k)
       /\ cs_projected' = filter_columns(cs_row', cs_parsed.columns)
  /\ cs_pc' = "done"
  /\ UNCHANGED <<cs_spec, cs_max_cols, cs_parsed, grep_vars, tr_vars>>

CsIdle ==
  /\ cs_spec = <<>> /\ cs_max_cols = 0
  /\ cs_parsed = [columns |-> {}, warnings |-> 0, error |-> FALSE]
  /\ cs_row = <<>> /\ cs_projected = <<>> /\ cs_pc = "idle"

\* ---------------------------------------------------------------- trim_csv
\* the fields of the files trimmed: an empty value and a non-empty one
TrimFields == { <<>>, <<"x">> }

TrimTables == SeqsUpTo(SeqsUpTo(TrimFields, MaxCols), MaxRows)

\* lines 59-66: the loop over the data rows, with its early exit
RECURSIVE IdentifyLoop(_, _)
IdentifyLoop(empty_columns, data) ==
  IF data = <<>> \/ empty_columns = {} THEN empty_columns
  ELSE IdentifyLoop(
         { c \in empty_columns : ~(c < Len(Head(data)) /\ Head(data)[c + 1] # <<>>) },
         Tail(data))

\* identify_empty_columns(rows)
identify_empty_columns(table) ==
  IF Len(table) < 2 THEN {}
  ELSE IdentifyLoop(0..(Len(table[1]) - 1), Tail(table))

TrStart ==
  /\ tr_file \in TrimTables
  /\ tr_rows = <<>> /\ tr_empty = {} /\ tr_keep = <<>>
  /\ tr_written = <<>> /\ tr_pc = "read"

\* lines 84-86
TrRead ==
  /\ tr_pc = "read"
  /\ tr_file # <<>>
  /\ tr_rows' = tr_file
  /\ tr_pc' = "identify"
  /\ UNCHANGED <<tr_file, tr_empty, tr_keep, tr_written, grep_vars, cs_vars>>

\* lines 88-89: ValueError("CSV file is empty")
TrReadEmpty ==
  /\ tr_pc = "read"
  /\ tr_file = <<>>
  /\ tr_rows' = tr_file
  /\ tr_pc' = "raised"
  /\ UNCHANGED <<tr_file, tr_empty, tr_keep, tr_written, grep_vars, cs_vars>>

\* lines 91-97
TrIdentify ==
  /\ tr_pc = "identify"
  /\ tr_empty' = identify_empty_columns(tr_rows)
  /\ tr_keep' = SelectSeq([k \in 1..Len(tr_rows[1]) |-> k - 1],
                          LAMBDA i : i \notin identify_empty_columns(tr_rows))
  /\ tr_pc' = "write"
  /\ UNCHANGED <<tr_file, tr_rows, tr_written, grep_vars, cs_vars>>

\* lines 102-104: one row is written
TrWriteRow ==
  /\ tr_pc = "write"
  /\ Len(tr_written) < Len(tr_rows)
  /\ LET row == tr_rows[Len(tr_written) + 1]
         kept == SelectSeq(tr_keep, LAMBDA i : i < Len(row))
     IN tr_written' = Append(tr_written, [k \in 1..Len(kept) |-> row[kept[k] + 1]])
  /\ UNCHANGED <<tr_file, tr_rows, tr_empty, tr_keep, tr_pc, grep_vars, cs_vars>>

\* lines 106-109
TrReturn ==
  /\ tr_pc = "write"
  /\ Len(tr_written) = Len(tr_rows)
  /\ tr_pc' = "done"
  /\ UNCHANGED <<tr_file, tr_rows, tr_empty, tr_keep, tr_written, grep_vars, cs_vars>>

TrIdle ==
  /\ tr_file = <<>> /\ tr_rows = <<>> /\ tr_empty = {} /\ tr_keep = <<>>
  /\ tr_written = <<>> /\ tr_pc = "idle"

Init == GrepStart(Tables, Patterns, ColumnArgs, BOOLEAN) /\ CsIdle /\ TrIdle

Next == GrepNext

Spec == Init /\ [][Next]_vars

\* csvgrep run, run again with -v flipped, and once more
InitInvert ==
  /\ GrepStart(Tables, Patterns, { <<>>, <<"3", ",", "1">>, <<"x">> }, {FALSE})
  /\ CsIdle /\ TrIdle

NextInvert == GrepNext \/ InvertRerun

SpecInvert == InitInvert /\ [][NextInvert]_vars

\* parse_column_spec and filter_columns applied to every spec and width
InitCols == GrepIdle /\ CsStart /\ TrIdle

NextCols == CsParse \/ CsParseRaises \/ CsFilter

SpecCols == InitCols /\ [][NextCols]_vars

\* trim_csv on every table
InitTrim == GrepIdle /\ CsIdle /\ TrStart

NextTrim == TrRead \/ TrReadEmpty \/ TrIdentify \/ TrWriteRow \/ TrReturn

SpecTrim == InitTrim /\ [][NextTrim]_vars

\* ------------------------------------------------------------ the claims
\* The matcher of the documentation: AlwaysMatch for the empty pattern (also
\* with -F), else the substring test of the case-folded texts with -F, else
\* the search of the compiled pattern.
MatcherMatch(text) ==
  IF pattern = <<>> THEN TRUE
  ELSE IF fixed_strings
       THEN Contains(IF ignore_case THEN LowerText(text) ELSE text,
                     IF ignore_case THEN LowerText(pattern) ELSE pattern)
       ELSE RegexSearch(pattern, ignore_case, text)

\* input line n has been written to standard output
Emitted(n) == \E k \in 1..Len(out) : out[k].src = n

\* the number of rows the scan loop has gone through
Scanned == IF line_num = 0 THEN 0 ELSE line_num - 1

\* C1: every data row (input line >= 2) the scan has gone through is on
\* standard output iff the matcher's verdict on the row's fields joined with
\* the delimiter differs from invert_match, whatever the column spec,
\* with_header, no_header and show_line_numbers are; a row not yet scanned is
\* not on standard output.
C1_DataRowEmittedIffMatchXorInvert ==
  \A n \in 2..Len(rows) :
    IF n <= Scanned
    THEN Emitted(n) <=> (MatcherMatch(Join(rows[n], delimiter)) # invert_match)
    ELSE ~Emitted(n)

\* C1 witness: a finished scan with a column spec, line numbers, --no-header
\* and -v, that printed one data row and held another back, the pattern
\* matching only across a field boundary.
C1_Witness ==
  /\ pc = "exit" /\ exit_code = 0
  /\ col_filter # {} /\ show_line_numbers /\ no_header /\ invert_match
  /\ pattern = <<"a", ".", "A">> /\ ~fixed_strings
  /\ \E n, m \in 2..Len(rows) : Emitted(n) /\ ~Emitted(m)

\* the header policy table of the documentation
HeaderPolicy ==
  IF with_header THEN TRUE
  ELSE IF no_header THEN FALSE
  ELSE IF pattern = <<>> THEN TRUE
  ELSE MatcherMatch(Join(rows[1], delimiter)) # invert_match

\* C2: once the scan has gone through line 1, line 1 is on standard output
\* iff the header policy table says so; the policy touches no later row:
\* with_header forces no data row out, no_header holds no data row back, and
\* the empty pattern's bypass does not shield a data row from invert_match.
C2_HeaderPolicy ==
  /\ Scanned >= 1 => (Emitted(1) <=> HeaderPolicy)
  /\ Scanned = 0 => ~Emitted(1)
  /\ \A n \in 2..Scanned :
       LET hit == MatcherMatch(Join(rows[n], delimiter)) # invert_match IN
       /\ (with_header /\ ~hit) => ~Emitted(n)
       /\ (no_header /\ hit) => Emitted(n)
       /\ (pattern = <<>> /\ invert_match) => ~Emitted(n)

\* C2 witness: --with-header and --no-header and -v together, a header the
\* pattern matches (so the matcher would hold it back), printed all the same,
\* and a later matching row held back.
C2_Witness ==
  /\ pc = "exit" /\ exit_code = 0
  /\ with_header /\ no_header /\ invert_match /\ pattern = <<"a">>
  /\ Len(rows) >= 2
  /\ MatcherMatch(Join(rows[1], delimiter))
  /\ Emitted(1)
  /\ \E n \in 2..Len(rows) : ~Emitted(n)

\* input line n is among the lines of a standard output
EmittedIn(o, n) == \E k \in 1..Len(o) : o[k].src = n

\* C9: of two successful runs on the same table, pattern and flags that
\* differ in invert_match alone, every data row is printed by exactly one
\* (the two sets are disjoint and together hold every data row), and so is
\* the header row when with_header and no_header are unset and the pattern is
\* not empty; a run after two flips prints exactly what the first run printed.
C9_InvertIsBooleanFlip ==
  (runs >= 2 /\ pc = "exit" /\ exit_code = 0) =>
    /\ \A n \in 2..Len(rows) : Emitted(n) # EmittedIn(earlier[runs - 1], n)
    /\ (~with_header /\ ~no_header /\ pattern # <<>> /\ Len(rows) >= 1) =>
         (Emitted(1) # EmittedIn(earlier[runs - 1], 1))
    /\ runs >= 3 => out = earlier[runs - 2]

\* C9 witness: the third run has finished; the first and the second each
\* printed a data row, and the header, which went through the matcher, was
\* printed by the second.
C9_Witness ==
  /\ runs = 3 /\ pc = "exit" /\ exit_code = 0
  /\ ~with_header /\ ~no_header /\ pattern # <<>>
  /\ \E n \in 2..Len(rows) : EmittedIn(earlier[1], n)
  /\ \E n \in 2..Len(rows) : EmittedIn(earlier[2], n)
  /\ EmittedIn(earlier[2], 1)
  /\ out # <<>>

\* the tokens of a column spec, as the documentation reads them: t is a
\* single number when it is all digits, a range a-b when it is digits, one
\* hyphen, digits
SpecTokens(spec) == { Split(spec, ",")[k] : k \in 1..Len(Split(spec, ",")) }

IsSingle(t) == AllDigits(t)

IsRange(t) ==
  \E k \in 2..(Len(t) - 1) :
    t[k] = "-" /\ AllDigits(SubSeq(t, 1, k - 1)) /\ AllDigits(SubSeq(t, k + 1, Len(t)))

RangeStart(t) == NatVal(SubSeq(t, 1, (CHOOSE k \in 1..Len(t) : t[k] = "-") - 1))

RangeEnd(t) == NatVal(SubSeq(t, (CHOOSE k \in 1..Len(t) : t[k] = "-") + 1, Len(t)))

\* the 1-indexed column i is named by token t
TokenNames(t, i) ==
  \/ IsSingle(t) /\ NatVal(t) = i
  \/ IsRange(t) /\ RangeStart(t) <= i /\ i <= RangeEnd(t)

\* C3: for a spec whose tokens are single positive integers or ranges a-b,
\* parse_column_spec returns (it does not raise) exactly the positions i-1 of
\* the columns i in 1..max_cols that some token names.
C3_ParseColumnSpecSet ==
  (/\ cs_pc # "parse" /\ cs_pc # "idle"
   /\ \A t \in SpecTokens(cs_spec) : (IsSingle(t) /\ NatVal(t) >= 1) \/ IsRange(t)) =>
    /\ cs_pc # "raised"
    /\ cs_parsed.columns =
         { i - 1 : i \in { j \in 1..cs_max_cols :
                             \E t \in SpecTokens(cs_spec) : TokenNames(t, j) } }

\* C3 witness: "1,1-3" on two columns: the duplicate collapses and the
\* in-bounds part of the range that runs out of bounds is kept.
C3_Witness ==
  /\ cs_pc = "filter"
  /\ cs_spec = <<"1", ",", "1", "-", "3">> /\ cs_max_cols = 2
  /\ cs_parsed.columns = {0, 1}

\* the positions of a set that a row has
Present(row, positions) == { i \in positions : i < Len(row) }

\* C4: for a non-empty set the projection holds exactly the row's values at
\* the positions of the set the row has, in strictly ascending order of
\* position (its k-th value is the value at the k-th smallest such position),
\* so it is shorter than the set when the row lacks positions; for an empty
\* set it is the row itself.
C4_FilterColumnsAscending ==
  cs_pc = "done" =>
    IF cs_parsed.columns = {} THEN cs_projected = cs_row
    ELSE LET present == Present(cs_row, cs_parsed.columns) IN
         /\ Len(cs_projected) = Cardinality(present)
         /\ \A k \in 1..Len(cs_projected) :
              \E i \in present :
                /\ Cardinality({ j \in present : j < i }) = k - 1
                /\ cs_projected[k] = cs_row[i + 1]

\* C4 witness: spec "3,1": on a row of three fields the projection is the
\* first and the third field in that order, token order notwithstanding.
C4_Witness ==
  /\ cs_pc = "done"
  /\ cs_spec = <<"3", ",", "1">> /\ cs_max_cols = 3
  /\ cs_row = << <<"c", "1">>, <<"c", "2">>, <<"c", "3">> >>
  /\ cs_projected = << <<"c", "1">>, <<"c", "3">> >>

\* C4, the ragged case: the same spec on a row of two fields yields one value.
C4_WitnessRagged ==
  /\ cs_pc = "done"
  /\ cs_spec = <<"3", ",", "1">> /\ cs_max_cols = 3
  /\ Len(cs_row) = 2
  /\ cs_projected = << <<"c", "1">> >>

\* a token is an integer token when int() reads it, an integer range when a
\* hyphen splits it into two such; a token that is neither is malformed
IsIntegerRange(t) ==
  \E k \in 1..Len(t) :
    t[k] = "-" /\ IsInt(SubSeq(t, 1, k - 1)) /\ IsInt(SubSeq(t, k + 1, Len(t)))

Malformed(t) == ~IsInt(t) /\ ~IsIntegerRange(t)

HasMalformedToken(spec) == spec # <<>> /\ \E t \in SpecTokens(spec) : Malformed(t)

MatcherValid == pattern = <<>> \/ fixed_strings \/ RegexValid(pattern)

ValidationError(m) ==
  m \in { "Error: Invalid regex pattern", "Error: Invalid column specification" }

Warned == \E k \in 1..Len(err) : err[k] = "Warning: out of bounds"

\* C5: a finished invocation on an existing file whose column spec holds a
\* malformed token has exit code 1, also when the file has no rows; and exit
\* code 0 is reached only with the file found, the matcher valid and no
\* malformed token.
C5_MalformedTokenExitsOne ==
  pc = "exit" =>
    /\ (file_exists /\ HasMalformedToken(columns)) => exit_code = 1
    /\ exit_code = 0 => (file_exists /\ MatcherValid /\ ~HasMalformedToken(columns))

\* C6: a run that has printed a validation error (invalid regex, malformed
\* column token) has exited with 1 without entering the scan loop and with
\* nothing on standard output; and once the scan loop is entered the matcher
\* is valid and prepared and the whole column spec has been parsed, no token
\* of it malformed.
C6_ValidationPrecedesEmission ==
  /\ (\E k \in 1..Len(err) : ValidationError(err[k])) =>
       (pc = "exit" /\ exit_code = 1 /\ line_num = 0 /\ out = <<>>)
  /\ (line_num >= 1 \/ out # <<>>) =>
       /\ MatcherValid
       /\ (pattern # <<>> /\ ~fixed_strings) => regex = <<pattern, ignore_case>>
       /\ ~HasMalformedToken(columns)
       /\ columns # <<>> => col_filter = parse_column_spec(columns, max_cols).columns

\* C6 witness: the column spec "x" aborted a run whose empty pattern would
\* have printed every row of a file of two rows or more: nothing was printed.
C6_Witness ==
  /\ pc = "exit" /\ exit_code = 1
  /\ pattern = <<>> /\ Len(rows) >= 2 /\ columns = <<"x">>
  /\ err = <<"Error: Invalid column specification">>
  /\ out = <<>>

\* C6 witness, the matcher: an invalid regex aborted before the file was read.
C6_WitnessRegex ==
  /\ pc = "exit" /\ exit_code = 1
  /\ file_exists /\ file # <<>> /\ rows = <<>>
  /\ err = <<"Error: Invalid regex pattern">>
  /\ out = <<>>

\* what print() writes for input line n with no projection
FullLine(n) ==
  (IF show_line_numbers THEN Decimal(n) \o <<":">> ELSE <<>>) \o Join(rows[n], delimiter)

\* C7: with an existing file, a valid matcher and a column spec all of whose
\* tokens are integers, whatever their value (zero or less, above max_cols),
\* the run does not abort: it exits with 0, the scan runs with exactly the
\* positions of the tokens in [1, max_cols], and when none is, every printed
\* row has all its columns.
C7_OutOfBoundsIntegerNeverAborts ==
  (/\ file_exists /\ MatcherValid
   /\ columns # <<>> /\ \A t \in SpecTokens(columns) : IsInt(t)) =>
    /\ pc = "exit" => exit_code = 0
    /\ line_num >= 1 =>
         col_filter = { IntVal(t) - 1 : t \in { u \in SpecTokens(columns) :
                                                  1 <= IntVal(u) /\ IntVal(u) <= max_cols } }
    /\ (line_num >= 1 /\ col_filter = {}) =>
         \A k \in 1..Len(out) : out[k].text = FullLine(out[k].src)

\* C8: when a column spec of integer tokens and integer ranges has been
\* parsed to an empty set of positions, a warning is on the diagnostic stream
\* before the scan, and the run exits with 0.
C8_EmptyColumnSetIsWarned ==
  (/\ columns # <<>>
   /\ \A t \in SpecTokens(columns) : IsInt(t) \/ IsIntegerRange(t)
   /\ line_num >= 1 /\ col_filter = {}) =>
    /\ Warned
    /\ pc = "exit" => exit_code = 0

\* the widest row of the trimmed file
TrWidth == Max({ Len(tr_rows[r]) : r \in 1..Len(tr_rows) })

\* column c holds no value, or an empty one, in every data row
TrEmptyInEveryDataRow(c) ==
  \A r \in 2..Len(tr_rows) : c < Len(tr_rows[r]) => tr_rows[r][c + 1] = <<>>

TrKept(c) == \E k \in 1..Len(tr_keep) : tr_keep[k] = c

NonEmptyCount(row) == Cardinality({ k \in 1..Len(row) : row[k] # <<>> })

\* C10: trim_csv, on a header and at least one data row, drops a column iff
\* it is empty in every data row, so every data row is written with all its
\* non-empty fields, those beyond the header's width included.
C10_TrimDropsOnlyEmptyColumns ==
  (tr_pc = "done" /\ Len(tr_rows) >= 2) =>
    /\ \A c \in 0..(TrWidth - 1) : ~TrKept(c) <=> TrEmptyInEveryDataRow(c)
    /\ \A r \in 2..Len(tr_rows) :
         NonEmptyCount(tr_written[r]) = NonEmptyCount(tr_rows[r])


\* the number an output line starts with: the digits before its first colon
PrefixNumber(text) ==
  NatVal(SubSeq(text, 1, (CHOOSE k \in 1..Len(text) :
                            text[k] = ":" /\ \A j \in 1..(k - 1) : text[j] # ":") - 1))

\* the text of an output line after its first colon
AfterPrefix(text) ==
  SubSeq(text, (CHOOSE k \in 1..Len(text) :
                  text[k] = ":" /\ \A j \in 1..(k - 1) : text[j] # ":") + 1, Len(text))

\* C11: standard output keeps the input's order and rows: the lines printed
\* are for strictly increasing input positions (so no row is printed twice
\* and none out of order), each holds the projection of the row at its
\* position, and with show_line_numbers each starts with 'N:' where N is that
\* input position, not the place in the output; so the prefixes increase
\* strictly and the first data row printed is numbered 2 or more even when
\* the header is held back.
C11_OutputKeepsInputOrderAndNumbers ==
  /\ \A j, k \in 1..Len(out) : j < k => out[j].src < out[k].src
  /\ \A k \in 1..Len(out) :
       LET n == out[k].src
           line == Join(filter_columns(rows[n], col_filter), delimiter)
       IN /\ n \in 1..Scanned
          /\ IF show_line_numbers
             THEN /\ \E c \in 1..Len(out[k].text) : out[k].text[c] = ":"
                  /\ PrefixNumber(out[k].text) = n
                  /\ AfterPrefix(out[k].text) = line
             ELSE out[k].text = line
  /\ show_line_numbers =>
       \A j, k \in 1..Len(out) :
         j < k => PrefixNumber(out[j].text) < PrefixNumber(out[k].text)
  /\ (show_line_numbers /\ no_header /\ ~with_header) =>
       \A k \in 1..Len(out) : PrefixNumber(out[k].text) >= 2

\* C11 witness: -n with --no-header on a file of three rows, row 2 held back
\* by the matcher: the one line printed is the first of the output and is
\* numbered 3.
C11_Witness ==
  /\ pc = "exit" /\ exit_code = 0
  /\ show_line_numbers /\ no_header /\ ~with_header /\ pattern # <<>>
  /\ Len(rows) = 3 /\ Len(out) = 1
  /\ out[1].src = 3
  /\ out[1].text[1] = "3" /\ out[1].text[2] = ":"

====
